---- MODULE Spec2Model ----
(***************************************************************************)
(* Model of tokenizers/src/decoders/mod.rs: the DecoderWrapper enum, its   *)
(* Decoder implementation (decode_chain), the From conversions and the     *)
(* derived untagged (de)serialization.                                     *)
(*                                                                         *)
(* The concrete decoders (bpe.rs, fuse.rs, sequence.rs, metaspace.rs, ...) *)
(* live in other files of the crate: their decode_chain and their own      *)
(* serde schemas are modelled from the specification.                      *)
(***************************************************************************)
EXTENDS Naturals, Sequences, FiniteSets, TLC

VARIABLES
    strategy,    \* a concrete decoder, before it is lifted
    wrapper,     \* the DecoderWrapper built from it
    tokens,      \* the argument of decode_chain
    result,      \* what decode_chain returned
    json,        \* a configuration object handed to serde_json::from_str
    decoded,     \* what deserialization returned
    serialized,  \* what serde_json::to_string returned for the decoded value
    prev,        \* the previous serialization, once it was loaded again
    decoder,     \* a DecoderWrapper shared by the threads
    th           \* per thread: the decode_chain call it is running on decoder

decodeVars == <<strategy, wrapper, tokens, result>>
serdeVars == <<json, decoded, serialized, prev>>
sharedVars == <<decoder, th>>
vars == <<strategy, wrapper, tokens, result, json, decoded, serialized, prev,
          decoder, th>>

----------------------------------------------------------------------------
(* Bounds *)

\* longest token sequence handed to decode_chain
MaxLen == 2
\* largest number of decoder values (leaves and Sequences) in one decoder tree
MaxNodes == 3

----------------------------------------------------------------------------
(* Values *)

Tok == {"a", "b"}

RECURSIVE SeqsUpTo(_, _)
SeqsUpTo(S, n) ==
    IF n = 0 THEN {<<>>}
    ELSE LET shorter == SeqsUpTo(S, n - 1)
         IN  shorter \cup {Append(s, x) : s \in {q \in shorter : Len(q) = n - 1}, x \in S}

TokenSeqs == SeqsUpTo(Tok, MaxLen)

None == [none |-> TRUE]
Some(x) == [some |-> x]

\* Result<Vec<String>>: Ok(val) or Err(err).  calls is the history of the
\* concrete (leaf) decode_chain invocations made while computing the result.
Ok(v, c) == [ok |-> TRUE, val |-> v, err |-> "", calls |-> c]
Err(e, c) == [ok |-> FALSE, val |-> <<>>, err |-> e, calls |-> c]

\* The ten variants of DecoderWrapper, in declaration order.
Cases == <<"BPE", "ByteLevel", "WordPiece", "Metaspace", "CTC",
           "Sequence", "Replace", "Fuse", "Strip", "ByteFallback">>

\* The concrete decoder types held by the variants.
LeafTypes == {"BPEDecoder", "ByteLevel", "WordPiece", "Metaspace", "CTC",
              "Replace", "Fuse", "Strip", "ByteFallback"}

\* Default parameters of a concrete decoder, in the order its fields are
\* serialized after "type".
DefaultParams(ty) ==
    CASE ty = "Metaspace" -> <<"_", "always", "true">>
      [] ty = "Strip"     -> <<"_", "1", "0">>
      [] OTHER            -> <<>>

\* A concrete decoder value.  decoders is the Vec<DecoderWrapper> of a Sequence.
Leaf(ty) == [type |-> ty, params |-> DefaultParams(ty), decoders |-> <<>>]
SequenceNew(ds) == [type |-> "Sequence", params |-> <<>>, decoders |-> ds]

----------------------------------------------------------------------------
(* From conversions: impl_enum_from!(T, DecoderWrapper, Variant) *)

From(s) ==
    CASE s.type = "BPEDecoder"   -> [case |-> "BPE", held |-> s]
      [] s.type = "ByteLevel"    -> [case |-> "ByteLevel", held |-> s]
      [] s.type = "ByteFallback" -> [case |-> "ByteFallback", held |-> s]
      [] s.type = "Fuse"         -> [case |-> "Fuse", held |-> s]
      [] s.type = "Strip"        -> [case |-> "Strip", held |-> s]
      [] s.type = "Metaspace"    -> [case |-> "Metaspace", held |-> s]
      [] s.type = "WordPiece"    -> [case |-> "WordPiece", held |-> s]
      [] s.type = "CTC"          -> [case |-> "CTC", held |-> s]
      [] s.type = "Sequence"     -> [case |-> "Sequence", held |-> s]
      [] s.type = "Replace"      -> [case |-> "Replace", held |-> s]

----------------------------------------------------------------------------
(* Decoder trees of bounded size *)

RECURSIVE StrategiesOfSize(_, _), WrapperListsOfSize(_, _)

\* concrete decoders over leaf types L made of exactly n decoder values
StrategiesOfSize(L, n) ==
    IF n = 0 THEN {}
    ELSE IF n = 1 THEN {Leaf(ty) : ty \in L} \cup {SequenceNew(<<>>)}
    ELSE {SequenceNew(ds) : ds \in WrapperListsOfSize(L, n - 1)}

\* non-empty lists of wrappers whose sizes add up to m
WrapperListsOfSize(L, m) ==
    IF m = 0 THEN {}
    ELSE UNION {
           {<<From(h)>> \o t :
               h \in StrategiesOfSize(L, k),
               t \in (IF k = m THEN {<<>>} ELSE WrapperListsOfSize(L, m - k))}
           : k \in 1..m}

StrategiesUpTo(L, n) == UNION {StrategiesOfSize(L, k) : k \in 1..n}

----------------------------------------------------------------------------
(* decode_chain of the concrete decoders *)

\* The leaf strategies are opaque to mod.rs: each is some function from token
\* sequences to Result.  Three stand-in behaviours are used.
StrategyKind(ty) ==
    CASE ty \in {"Strip", "WordPiece", "CTC"}           -> "drop"
      [] ty \in {"Replace", "Metaspace", "ByteLevel"}   -> "map"
      [] ty \in {"ByteFallback", "BPEDecoder", "Fuse"}  -> "fail"

Strategy_decode_chain(s, toks) ==
    LET call == <<[s |-> s, in |-> toks]>>
    IN  CASE StrategyKind(s.type) = "drop" ->
               Ok(IF toks = <<>> THEN <<>> ELSE Tail(toks), call)
          [] StrategyKind(s.type) = "map" ->
               Ok([i \in 1..Len(toks) |-> "b"], call)
          [] StrategyKind(s.type) = "fail" ->
               IF \E i \in 1..Len(toks) : toks[i] = "b"
               THEN Err(s.type, call)
               ELSE Ok(toks, call)

RECURSIVE decode_chain(_, _), Sequence_decode_chain(_, _, _)

\* Mutants of decode_chain
decode_chain_SeqNotForwarded(w, toks) ==
    IF w.case = "Sequence" THEN Ok(toks, <<>>)
    ELSE Strategy_decode_chain(w.held, toks)

decode_chain_ErrSwallowed(w, toks) ==
    LET r == IF w.case = "Sequence"
             THEN Sequence_decode_chain(w.held.decoders, toks, <<>>)
             ELSE Strategy_decode_chain(w.held, toks)
    IN  IF r.ok THEN r ELSE Ok(toks, r.calls)

decode_chain_StripNotForwarded(w, toks) ==
    IF w.case = "Sequence" THEN Sequence_decode_chain(w.held.decoders, toks, <<>>)
    ELSE IF w.case = "Strip" THEN Ok(toks, <<>>)
    ELSE Strategy_decode_chain(w.held, toks)

\* impl Decoder for DecoderWrapper
decode_chain(w, toks) ==
    CASE w.case = "BPE"          -> Strategy_decode_chain(w.held, toks)
      [] w.case = "ByteLevel"    -> Strategy_decode_chain(w.held, toks)
      [] w.case = "Metaspace"    -> Strategy_decode_chain(w.held, toks)
      [] w.case = "WordPiece"    -> Strategy_decode_chain(w.held, toks)
      [] w.case = "CTC"          -> Strategy_decode_chain(w.held, toks)
      [] w.case = "Sequence"     -> Sequence_decode_chain(w.held.decoders, toks, <<>>)
      [] w.case = "Replace"      -> Strategy_decode_chain(w.held, toks)
      [] w.case = "ByteFallback" -> Strategy_decode_chain(w.held, toks)
      [] w.case = "Strip"        -> Strategy_decode_chain(w.held, toks)
      [] w.case = "Fuse"         -> Strategy_decode_chain(w.held, toks)

\* Sequence::decode_chain: each decoder in list order, the output of one the
\* input of the next; the first error ends the call.
Sequence_decode_chain(ds, toks, calls) ==
    IF ds = <<>> THEN Ok(toks, calls)
    ELSE LET r == decode_chain(Head(ds), toks)
         IN  IF r.ok
             THEN Sequence_decode_chain(Tail(ds), r.val, calls \o r.calls)
             ELSE Err(r.err, calls \o r.calls)

\* The held decoder's own decode_chain.
Held_decode_chain(s, toks) ==
    IF s.type = "Sequence"
    THEN Sequence_decode_chain(s.decoders, toks, <<>>)
    ELSE Strategy_decode_chain(s, toks)

----------------------------------------------------------------------------
(* Specification of one construction followed by one decode_chain call *)

Init ==
    /\ strategy \in StrategiesUpTo(LeafTypes, MaxNodes)
    /\ tokens \in TokenSeqs
    /\ wrapper = None
    /\ result = None
    /\ json = <<>>
    /\ decoded = None
    /\ serialized = None
    /\ prev = None
    /\ decoder = None
    /\ th = None

\* DecoderWrapper::from(strategy)
Lift ==
    /\ wrapper = None
    /\ wrapper' = From(strategy)
    /\ UNCHANGED <<strategy, tokens, result>>
    /\ UNCHANGED <<serdeVars, sharedVars>>

\* wrapper.decode_chain(tokens)
DecodeChain ==
    /\ wrapper # None
    /\ result = None
    /\ result' = decode_chain(wrapper, tokens)
    /\ UNCHANGED <<strategy, wrapper, tokens>>
    /\ UNCHANGED <<serdeVars, sharedVars>>

Next == Lift \/ DecodeChain

Spec == Init /\ [][Next]_vars

----------------------------------------------------------------------------
(* Properties of decode_chain *)

Done == wrapper # None /\ result # None

\* d_i.decode_chain(... d_1.decode_chain(toks) ...) for every prefix d_1..d_i
\* of ds, together with the invocations made, in the order they were made.
Piped(ds, toks) ==
    LET P[i \in 0..Len(ds)] ==
          IF i = 0 THEN Ok(toks, <<>>)
          ELSE IF P[i - 1].ok
               THEN LET r == decode_chain(ds[i], P[i - 1].val)
                    IN  [r EXCEPT !.calls = P[i - 1].calls \o r.calls]
               ELSE P[i - 1]
    IN  P[Len(ds)]

Reverse(s) == [i \in 1..Len(s) |-> s[Len(s) + 1 - i]]

\* C1: decode_chain of a Sequence holding d1..dn equals
\* dn.decode_chain(...d1.decode_chain(t)...): the decoders are invoked in list
\* order, each on the previous one's output, and with n = 0 the input is
\* returned unchanged.
C1_SequenceOrder ==
    (Done /\ wrapper.case = "Sequence") =>
        /\ result = Piped(wrapper.held.decoders, tokens)
        /\ wrapper.held.decoders = <<>> => result = Ok(tokens, <<>>)

\* a chain of two decoders whose order matters has run to completion
C1_Witness ==
    /\ Done
    /\ wrapper.case = "Sequence"
    /\ Len(wrapper.held.decoders) = 2
    /\ result.ok
    /\ Len(result.calls) = 2
    /\ result.calls[2].in # tokens
    /\ Piped(Reverse(wrapper.held.decoders), tokens).val # result.val

\* the concrete decoder invoked by call c returned an error
Failed(c) == ~Strategy_decode_chain(c.s, c.in).ok

\* C2: when a decoder of a Sequence (at any depth) returns an error, the
\* whole call returns that same error, no partial output, and no decoder
\* after the failing one is invoked; decode_chain returns an error only when
\* a wrapped decoder returned one.
C2_ErrorPropagation ==
    Done =>
        /\ \A i \in 1..Len(result.calls) :
              Failed(result.calls[i]) =>
                 /\ ~result.ok
                 /\ result.err = Strategy_decode_chain(result.calls[i].s,
                                                       result.calls[i].in).err
                 /\ result.val = <<>>
                 /\ i = Len(result.calls)
        /\ ~result.ok =>
              /\ result.calls # <<>>
              /\ Failed(result.calls[Len(result.calls)])

\* the first of two chained decoders failed and the second was never invoked
C2_Witness ==
    /\ Done
    /\ wrapper.case = "Sequence"
    /\ Len(wrapper.held.decoders) = 2
    /\ ~result.ok
    /\ Len(result.calls) = 1
    /\ result.calls[1].s = wrapper.held.decoders[1].held
    /\ result.err = wrapper.held.decoders[1].held.type

CaseNamedAfter(ty) == IF ty = "BPEDecoder" THEN "BPE" ELSE ty

\* C3: for each of the ten cases DecoderWrapper::decode_chain(t) returns
\* exactly what the held decoder's own decode_chain(t) returns, the tokens
\* passed through unmodified; DecoderWrapper::from(s) yields the case named
\* after s's type holding s, so from(s).decode_chain(t) = s.decode_chain(t).
C3_Forwarding ==
    /\ wrapper # None =>
          /\ wrapper.held = strategy
          /\ wrapper.case = CaseNamedAfter(strategy.type)
          /\ \E i \in 1..Len(Cases) : Cases[i] = wrapper.case
    /\ Done =>
          /\ result = Held_decode_chain(strategy, tokens)
          /\ strategy.type # "Sequence" =>
                result.calls = <<[s |-> strategy, in |-> tokens]>>

\* a lifted Strip decoder was called and changed its input
C3_Witness ==
    /\ Done
    /\ wrapper.case = "Strip"
    /\ result.ok
    /\ result.val # tokens

----------------------------------------------------------------------------
(* Specification of threads calling decode_chain on one shared instance *)

Threads == {"t1", "t2"}

\* leaf types of the shared instance, one of each stand-in behaviour
SharedLeafTypes == {"Strip", "Replace", "Fuse"}

\* the token sequences the threads pass
SharedInputs == {<<>>, <<"a">>, <<"b">>, <<"b", "a">>}

Idle == [pc |-> "idle", input |-> <<>>, cur |-> <<>>, todo |-> <<>>,
         calls |-> <<>>, result |-> None, mixed |-> FALSE]

\* the decoder at a path of indices into nested decoders lists
RECURSIVE At(_, _)
At(w, path) ==
    IF path = <<>> THEN w
    ELSE At(w.held.decoders[Head(path)], Tail(path))

\* Mutant of SelfAfter: a call that writes to the decoder it runs on
SelfAfter_Written(d) == [d EXCEPT !.held.params = Append(@, "used")]

\* fn decode_chain(&self, ..): the receiver is borrowed immutably, the call
\* leaves it as it found it.
SelfAfter(d) == d

InitShared ==
    /\ decoder \in {From(s) : s \in StrategiesUpTo(SharedLeafTypes, MaxNodes)}
    /\ th = [t \in Threads |-> Idle]
    /\ strategy = None
    /\ wrapper = None
    /\ tokens = <<>>
    /\ result = None
    /\ json = <<>>
    /\ decoded = None
    /\ serialized = None
    /\ prev = None

Overlaps(t) == \E u \in Threads \ {t} : th[u].pc = "run"

\* thread t calls decoder.decode_chain(toks)
Call(t, toks) ==
    /\ th[t].pc = "idle"
    /\ th' = [th EXCEPT ![t] = [Idle EXCEPT !.pc = "run", !.input = toks,
                                            !.cur = toks, !.todo = <<<<>>>>]]
    /\ decoder' = SelfAfter(decoder)
    /\ UNCHANGED <<decodeVars, serdeVars>>

\* the Sequence arm: Sequence::decode_chain starts on its decoders, in order
Enter(t) ==
    /\ th[t].pc = "run"
    /\ th[t].todo # <<>>
    /\ LET p == Head(th[t].todo)
           w == At(decoder, p)
       IN  /\ w.case = "Sequence"
           /\ th' = [th EXCEPT
                       ![t].todo = [i \in 1..Len(w.held.decoders) |-> Append(p, i)]
                                   \o Tail(th[t].todo),
                       ![t].mixed = @ \/ Overlaps(t)]
    /\ decoder' = SelfAfter(decoder)
    /\ UNCHANGED <<decodeVars, serdeVars>>

\* any other arm: the held decoder's decode_chain on the current tokens; an
\* error ends the call
Apply(t) ==
    /\ th[t].pc = "run"
    /\ th[t].todo # <<>>
    /\ LET w == At(decoder, Head(th[t].todo))
           r == decode_chain(w, th[t].cur)
       IN  /\ w.case # "Sequence"
           /\ th' = [th EXCEPT ![t] =
                       IF r.ok
                       THEN [@ EXCEPT !.cur = r.val, !.todo = Tail(@),
                                      !.calls = @ \o r.calls,
                                      !.mixed = @ \/ Overlaps(t)]
                       ELSE [@ EXCEPT !.pc = "done", !.todo = <<>>,
                                      !.calls = @ \o r.calls,
                                      !.result = Err(r.err, th[t].calls \o r.calls),
                                      !.mixed = @ \/ Overlaps(t)]]
    /\ decoder' = SelfAfter(decoder)
    /\ UNCHANGED <<decodeVars, serdeVars>>

\* nothing left to run: the call returns Ok
Finish(t) ==
    /\ th[t].pc = "run"
    /\ th[t].todo = <<>>
    /\ th' = [th EXCEPT ![t].pc = "done",
                        ![t].result = Ok(th[t].cur, th[t].calls),
                        ![t].mixed = @ \/ Overlaps(t)]
    /\ decoder' = SelfAfter(decoder)
    /\ UNCHANGED <<decodeVars, serdeVars>>

\* the caller takes the result; the thread may call again
Return(t) ==
    /\ th[t].pc = "done"
    /\ th' = [th EXCEPT ![t] = Idle]
    /\ UNCHANGED decoder
    /\ UNCHANGED <<decodeVars, serdeVars>>

NextShared ==
    \E t \in Threads :
        \/ \E toks \in SharedInputs : Call(t, toks)
        \/ Enter(t)
        \/ Apply(t)
        \/ Finish(t)
        \/ Return(t)

SpecShared == InitShared /\ [][NextShared]_vars

\* every finished call holds what the call returns when run alone
AloneResult ==
    \A t \in Threads :
        th[t].pc = "done" => th[t].result = decode_chain(decoder, th[t].input)

\* C10: decode_chain never changes the DecoderWrapper it is called on, on
\* success and on error, so for any interleaving of concurrent calls on one
\* shared instance each call returns the result it returns when run alone.
C10_SharedImmutable ==
    /\ [][decoder' = decoder]_vars
    /\ []AloneResult

\* two interleaved calls on a shared Sequence have finished, one with an
\* error and one with a value
C10_Witness ==
    /\ decoder.case = "Sequence"
    /\ Len(decoder.held.decoders) = 2
    /\ \A t \in Threads : th[t].pc = "done" /\ th[t].mixed
    /\ th["t1"].result.ok
    /\ ~th["t2"].result.ok

----------------------------------------------------------------------------
(* JSON configuration objects *)

\* An object is the sequence of its members, in the order they are written.
\* A member holds a scalar (v, its JSON text) or an array of objects (a).
Scalar(k, v) == [k |-> k, v |-> v, a |-> <<>>]
Array(k, objs) == [k |-> k, v |-> "[]", a |-> objs]

IsArray(m) == m.v = "[]"
Has(obj, k) == \E i \in 1..Len(obj) : obj[i].k = k
Get(obj, k) ==
    obj[CHOOSE i \in 1..Len(obj) :
            obj[i].k = k /\ \A j \in 1..(i - 1) : obj[j].k # k]
HasScalar(obj, k) == Has(obj, k) /\ ~IsArray(Get(obj, k))
HasArray(obj, k) == Has(obj, k) /\ IsArray(Get(obj, k))
Keys(obj) == [i \in 1..Len(obj) |-> obj[i].k]

\* The "type" discriminant written for each variant.
Tag(case) == case

\* The concrete decoder type held by each variant.
HeldType(case) == IF case = "BPE" THEN "BPEDecoder" ELSE case

Tags == {Tag(Cases[i]) : i \in 1..Len(Cases)}

NoVariantMatched == "data did not match any variant of untagged enum DecoderWrapper"

----------------------------------------------------------------------------
(* Deserialize / Serialize *)

RECURSIVE DecoderWrapper_deserialize(_), TryVariants(_, _, _),
          Variant_deserialize(_, _), Elements_deserialize(_, _)

VOk(s) == [ok |-> TRUE, val |-> s, err |-> ""]
VErr(e) == [ok |-> FALSE, val |-> None, err |-> e]

\* Vec<DecoderWrapper>: every element by DecoderWrapper's own Deserialize;
\* the first element that fails fails the list.
Elements_deserialize(objs, acc) ==
    IF objs = <<>> THEN VOk(acc)
    ELSE LET r == DecoderWrapper_deserialize(Head(objs))
         IN  IF r.ok THEN Elements_deserialize(Tail(objs), Append(acc, r.val))
             ELSE VErr(r.err)

\* Deserialize of the concrete decoder held by a variant: the discriminant
\* is mandatory and must name the variant, the required fields must be
\* present, unknown and legacy fields are ignored, an absent "split" is true.
Variant_deserialize(case, obj) ==
    IF ~HasScalar(obj, "type") THEN VErr("missing field type")
    ELSE IF Get(obj, "type").v # Tag(case) THEN VErr("invalid value for type")
    ELSE CASE case = "Metaspace" ->
                IF ~HasScalar(obj, "replacement")
                THEN VErr("missing field replacement")
                ELSE IF ~HasScalar(obj, "prepend_scheme")
                THEN VErr("missing field prepend_scheme")
                ELSE VOk([type |-> "Metaspace",
                          params |-> <<Get(obj, "replacement").v,
                                       Get(obj, "prepend_scheme").v,
                                       IF HasScalar(obj, "split")
                                       THEN Get(obj, "split").v ELSE "true">>,
                          decoders |-> <<>>])
           [] case = "Strip" ->
                IF \E k \in {"content", "start", "stop"} : ~HasScalar(obj, k)
                THEN VErr("missing field of Strip")
                ELSE VOk([type |-> "Strip",
                          params |-> <<Get(obj, "content").v, Get(obj, "start").v,
                                       Get(obj, "stop").v>>,
                          decoders |-> <<>>])
           [] case = "Sequence" ->
                IF ~HasArray(obj, "decoders")
                THEN VErr("missing field decoders")
                ELSE LET r == Elements_deserialize(Get(obj, "decoders").a, <<>>)
                     IN  IF r.ok THEN VOk(SequenceNew(r.val)) ELSE VErr(r.err)
           [] OTHER ->
                VOk([type |-> HeldType(case), params |-> <<>>, decoders |-> <<>>])

DOk(w, tried) == [ok |-> TRUE, val |-> w, err |-> "", tried |-> tried]
DErr(e, tried) == [ok |-> FALSE, val |-> None, err |-> e, tried |-> tried]

\* #[serde(untagged)]: the variants from the i-th on are tried in declaration
\* order against the buffered object; the first that deserializes is the
\* result; when none does, the fixed error.  tried is the history of the
\* variants attempted.
TryVariants(obj, i, tried) ==
    IF i > Len(Cases) THEN DErr(NoVariantMatched, tried)
    ELSE LET r == Variant_deserialize(Cases[i], obj)
         IN  IF r.ok
             THEN DOk([case |-> Cases[i], held |-> r.val], Append(tried, Cases[i]))
             ELSE TryVariants(obj, i + 1, Append(tried, Cases[i]))

\* Mutants of DecoderWrapper_deserialize
deserialize_VariantMissing(obj) ==
    LET r == TryVariants(obj, 1, <<>>)
    IN  IF r.ok /\ r.val.case = "ByteFallback"
        THEN DErr(NoVariantMatched, r.tried) ELSE r

deserialize_LastError(obj) ==
    LET r == TryVariants(obj, 1, <<>>)
    IN  IF r.ok THEN r
        ELSE DErr(Variant_deserialize(Cases[Len(Cases)], obj).err, r.tried)

deserialize_DefaultCase(obj) ==
    LET r == TryVariants(obj, 1, <<>>)
    IN  IF r.ok \/ Has(obj, "type") THEN r
        ELSE DOk(From(Leaf("Fuse")), r.tried)

deserialize_TagFirst(obj) ==
    IF HasScalar(obj, "type") /\ Get(obj, "type").v \in Tags
    THEN LET c == CHOOSE c \in Tags : c = Get(obj, "type").v
             r == Variant_deserialize(c, obj)
         IN  IF r.ok THEN DOk([case |-> c, held |-> r.val], <<c>>)
             ELSE DErr(NoVariantMatched, <<c>>)
    ELSE TryVariants(obj, 1, <<>>)

\* #[derive(Deserialize)] #[serde(untagged)] enum DecoderWrapper
DecoderWrapper_deserialize(obj) == TryVariants(obj, 1, <<>>)

RECURSIVE DecoderWrapper_serialize(_), Held_serialize(_)

\* Serialize of the concrete decoders: "type", then the fields in the
\* current layout.
Held_serialize(s) ==
    <<Scalar("type", Tag(CaseNamedAfter(s.type)))>> \o
    CASE s.type = "Metaspace" ->
           <<Scalar("replacement", s.params[1]),
             Scalar("prepend_scheme", s.params[2]),
             Scalar("split", s.params[3])>>
      [] s.type = "Strip" ->
           <<Scalar("content", s.params[1]), Scalar("start", s.params[2]),
             Scalar("stop", s.params[3])>>
      [] s.type = "Sequence" ->
           <<Array("decoders",
                   [i \in 1..Len(s.decoders) |->
                        DecoderWrapper_serialize(s.decoders[i])])>>
      [] OTHER -> <<>>

\* Mutant of DecoderWrapper_serialize: the enum's default, externally
\* tagged, representation
serialize_ExternallyTagged(w) == <<Array(w.case, <<Held_serialize(w.held)>>)>>

\* #[derive(Serialize)] #[serde(untagged)] enum DecoderWrapper: the held
\* value, with nothing added.
DecoderWrapper_serialize(w) == Held_serialize(w.held)

----------------------------------------------------------------------------
(* Configuration objects of bounded size *)

TypeOptions == {<<>>} \cup {<<Scalar("type", t)>> : t \in Tags \cup {"Unknown"}}

MetaspaceFields == <<Scalar("replacement", "_"), Scalar("prepend_scheme", "always")>>
StripFields == <<Scalar("content", "_"), Scalar("start", "1"), Scalar("stop", "0")>>

MetaspaceLegacy ==
    <<Scalar("type", "Metaspace"), Scalar("replacement", "_"),
      Scalar("add_prefix_space", "true"), Scalar("prepend_scheme", "always")>>

MetaspaceCanonical(split) ==
    <<Scalar("type", "Metaspace"), Scalar("replacement", "_"),
      Scalar("prepend_scheme", "always"), Scalar("split", split)>>

\* objects without a "decoders" list
FlatObjects ==
    TypeOptions
    \cup {t \o MetaspaceFields :
             t \in {<<>>} \cup {<<Scalar("type", x)>> :
                                   x \in {"Metaspace", "Fuse", "Sequence", "Unknown"}}}
    \cup {MetaspaceLegacy, MetaspaceCanonical("true"), MetaspaceCanonical("false")}
    \cup {MetaspaceFields \o <<Scalar("split", "true"), Scalar("type", "Metaspace")>>}
    \cup {<<Scalar("type", "Strip")>> \o StripFields, StripFields}
    \cup {<<Scalar("type", "Sequence"), Scalar("prepend_scheme", "always")>>}

ContainerOptions == {<<>>, <<Scalar("type", "Sequence")>>}

RECURSIVE ObjectsOfSize(_), ObjectListsOfSize(_)

\* objects made of exactly n objects
ObjectsOfSize(n) ==
    IF n = 0 THEN {}
    ELSE IF n = 1
    THEN FlatObjects \cup {t \o <<Array("decoders", <<>>)>> : t \in ContainerOptions}
    ELSE {t \o <<Array("decoders", l)>> :
             t \in ContainerOptions, l \in ObjectListsOfSize(n - 1)}

\* non-empty lists of objects whose sizes add up to m
ObjectListsOfSize(m) ==
    IF m = 0 THEN {}
    ELSE UNION {
           {<<h>> \o t :
               h \in ObjectsOfSize(k),
               t \in (IF k = m THEN {<<>>} ELSE ObjectListsOfSize(m - k))}
           : k \in 1..m}

ObjectsUpTo(n) == UNION {ObjectsOfSize(k) : k \in 1..n}

----------------------------------------------------------------------------
(* Specification of loading and saving a configuration *)

InitSerde ==
    /\ json \in ObjectsUpTo(MaxNodes)
    /\ decoded = None
    /\ serialized = None
    /\ prev = None
    /\ strategy = None
    /\ wrapper = None
    /\ tokens = <<>>
    /\ result = None
    /\ decoder = None
    /\ th = None

\* serde_json::from_str::<DecoderWrapper>(json)
Deserialize ==
    /\ decoded = None
    /\ decoded' = DecoderWrapper_deserialize(json)
    /\ UNCHANGED <<json, serialized, prev>>
    /\ UNCHANGED <<decodeVars, sharedVars>>

\* serde_json::to_string(&decoder)
Serialize ==
    /\ decoded # None
    /\ decoded.ok
    /\ serialized = None
    /\ serialized' = Some(DecoderWrapper_serialize(decoded.val))
    /\ UNCHANGED <<json, decoded, prev>>
    /\ UNCHANGED <<decodeVars, sharedVars>>

\* the serialized configuration is loaded again
Reload ==
    /\ serialized # None
    /\ json' = serialized.some
    /\ prev' = serialized
    /\ decoded' = None
    /\ serialized' = None
    /\ UNCHANGED <<decodeVars, sharedVars>>

NextSerde == Deserialize \/ Serialize \/ Reload

SpecSerde == InitSerde /\ [][NextSerde]_vars

----------------------------------------------------------------------------
(* Properties of loading and saving *)

AllScalar(obj) == \A i \in 1..Len(obj) : ~IsArray(obj[i])

RECURSIVE IsCanonical(_), KnownSchema(_), Migrated(_), LacksDiscriminant(_)

\* obj is written in the current layout of the case its "type" names
IsCanonical(obj) ==
    /\ HasScalar(obj, "type")
    /\ Get(obj, "type").v \in Tags
    /\ CASE Get(obj, "type").v = "Metaspace" ->
              /\ Keys(obj) = <<"type", "replacement", "prepend_scheme", "split">>
              /\ AllScalar(obj)
         [] Get(obj, "type").v = "Strip" ->
              /\ Keys(obj) = <<"type", "content", "start", "stop">>
              /\ AllScalar(obj)
         [] Get(obj, "type").v = "Sequence" ->
              /\ Keys(obj) = <<"type", "decoders">>
              /\ IsArray(obj[2])
              /\ \A i \in 1..Len(obj[2].a) : IsCanonical(obj[2].a[i])
         [] OTHER -> Keys(obj) = <<"type">>

LegacyKeys == <<"type", "replacement", "add_prefix_space", "prepend_scheme">>

\* obj is written in the current layout or in the legacy Metaspace layout
KnownSchema(obj) ==
    /\ HasScalar(obj, "type")
    /\ \/ IsCanonical(obj)
       \/ /\ Get(obj, "type").v = "Metaspace"
          /\ Keys(obj) = LegacyKeys
          /\ AllScalar(obj)
       \/ /\ Get(obj, "type").v = "Sequence"
          /\ Keys(obj) = <<"type", "decoders">>
          /\ IsArray(obj[2])
          /\ \A i \in 1..Len(obj[2].a) : KnownSchema(obj[2].a[i])

\* the current layout of an object of a known schema
Migrated(obj) ==
    IF Get(obj, "type").v = "Metaspace" /\ Keys(obj) = LegacyKeys
    THEN <<obj[1], obj[2], obj[4], Scalar("split", "true")>>
    ELSE IF Get(obj, "type").v = "Sequence"
    THEN <<obj[1], Array("decoders",
                         [i \in 1..Len(obj[2].a) |-> Migrated(obj[2].a[i])])>>
    ELSE obj

\* decoder_serialization: the legacy and the current configuration
OldJson ==
    <<Scalar("type", "Sequence"),
      Array("decoders", <<<<Scalar("type", "ByteFallback")>>, MetaspaceLegacy>>)>>
NewJson ==
    <<Scalar("type", "Sequence"),
      Array("decoders", <<<<Scalar("type", "ByteFallback")>>,
                          MetaspaceCanonical("true")>>)>>

\* C4: a configuration written in a legacy schema, deserialized and then
\* serialized, comes out in the current canonical layout, also when the
\* legacy object is nested in a Sequence; a Metaspace with replacement,
\* add_prefix_space:true, prepend_scheme:"always" comes out as type,
\* replacement, prepend_scheme:"always", split:true.
C4_SchemaMigration ==
    /\ (decoded # None /\ KnownSchema(json)) => decoded.ok
    /\ serialized # None => IsCanonical(serialized.some)
    /\ (serialized # None /\ KnownSchema(json)) => serialized.some = Migrated(json)
    /\ (serialized # None /\ json = MetaspaceLegacy) =>
           serialized.some = MetaspaceCanonical("true")
    /\ (serialized # None /\ json = OldJson) => serialized.some = NewJson

\* the legacy configuration of decoder_serialization was loaded and saved
C4_Witness ==
    /\ json = OldJson
    /\ serialized = Some(NewJson)

\* C5: for every case and every canonical configuration x of it, nested
\* Sequences included, serialize(deserialize(x)) = x; deserialize selects the
\* case that produced x and serialize(deserialize(.)) is idempotent.
C5_RoundTrip ==
    /\ (decoded # None /\ IsCanonical(json)) =>
           /\ decoded.ok
           /\ Tag(decoded.val.case) = Get(json, "type").v
    /\ (serialized # None /\ IsCanonical(json)) => serialized.some = json
    /\ (serialized # None /\ prev # None) => serialized = prev

\* decoder_serialization_other_no_arg: a Sequence of Fuse and a canonical
\* Metaspace was loaded and saved unchanged
C5_Witness ==
    /\ json = <<Scalar("type", "Sequence"),
                Array("decoders", <<<<Scalar("type", "Fuse")>>,
                                    MetaspaceCanonical("true")>>)>>
    /\ decoded # None
    /\ decoded.val.case = "Sequence"
    /\ serialized = Some(json)

UnrecognizedType(obj) == HasScalar(obj, "type") /\ Get(obj, "type").v \notin Tags
NoSchemaSatisfied(obj) ==
    \A i \in 1..Len(Cases) : ~Variant_deserialize(Cases[i], obj).ok

\* C6: an object whose "type" is unrecognized, or whose fields satisfy no
\* case's schema, fails to deserialize with the single error "data did not
\* match any variant of untagged enum DecoderWrapper" and yields no value.
C6_RejectNoMatch ==
    (decoded # None /\ (UnrecognizedType(json) \/ NoSchemaSatisfied(json))) =>
        /\ ~decoded.ok
        /\ decoded.err = NoVariantMatched
        /\ decoded.val = None

\* an object with an unrecognized "type" and Metaspace's fields was rejected
C6_Witness ==
    /\ json = <<Scalar("type", "Unknown")>> \o MetaspaceFields
    /\ decoded # None
    /\ ~decoded.ok

\* obj, or an element of the decoders list of the Sequence obj, lacks "type"
LacksDiscriminant(obj) ==
    \/ ~Has(obj, "type")
    \/ /\ HasScalar(obj, "type")
       /\ Get(obj, "type").v = "Sequence"
       /\ HasArray(obj, "decoders")
       /\ \E i \in 1..Len(Get(obj, "decoders").a) :
             LacksDiscriminant(Get(obj, "decoders").a[i])

\* C7: no object lacking "type" is accepted by any case, the empty object
\* and objects with only unrelated fields included; as an element of a
\* Sequence's decoders list it fails the whole enclosing Sequence with the
\* no-variant-matched error even if every other element is valid.
C7_DiscriminantMandatory ==
    (decoded # None /\ LacksDiscriminant(json)) =>
        /\ ~decoded.ok
        /\ decoded.err = NoVariantMatched
        /\ decoded.val = None

\* decoder_serialization_no_decode: a Sequence of {} and a valid Metaspace
\* was rejected
C7_Witness ==
    /\ json = <<Scalar("type", "Sequence"),
                Array("decoders", <<<<>>, <<Scalar("type", "Metaspace")>>
                                          \o MetaspaceFields>>)>>
    /\ decoded # None
    /\ ~decoded.ok

Accepting(obj) == {i \in 1..Len(Cases) : Variant_deserialize(Cases[i], obj).ok}
Min(S) == CHOOSE i \in S : \A j \in S : i <= j

====
